---- MODULE Spec2Model ----
(***************************************************************************)
(* Model of src/tema_2/sistema_inventario.py: the classes Producto and     *)
(* Inventario and the console loop menu_principal.                         *)
(*                                                                         *)
(* Python values are records [t, k, v]: t is the Python type, k the kind   *)
(* of number and v its magnitude.                                          *)
(*   int    k = "fin"  v = the integer                                     *)
(*          k = "huge" v = its sign; an int beyond the range of float,     *)
(*                     for which float(x) raises OverflowError             *)
(*   bool   k = "fin"  v = 0 or 1 (bool is a subclass of int)              *)
(*   float  k = "fin"  v = the number in quarters (1.50 is 6); the finite  *)
(*                     floats of the model are small dyadic fractions, so  *)
(*                     their sums and products are exact                   *)
(*          k = "inf"  v = its sign                                        *)
(*          k = "nan"                                                      *)
(*   str, NoneType     values that are neither int nor float               *)
(* Texts (str used as names and queries) are sequences of characters.      *)
(***************************************************************************)
EXTENDS Integers, Sequences, FiniteSets, TLC

VARIABLES productos, producto, res, memo, pc

vars == <<productos, producto, res, memo, pc>>

\* ------------------------------------------------------------ values

IntV(n) == [t |-> "int", k |-> "fin", v |-> n]
HugeV(s) == [t |-> "int", k |-> "huge", v |-> s]
BoolV(b) == [t |-> "bool", k |-> "fin", v |-> b]
FloatV(q) == [t |-> "float", k |-> "fin", v |-> q]
InfV(s) == [t |-> "float", k |-> "inf", v |-> s]
NaN == [t |-> "float", k |-> "nan", v |-> 0]
StrV == [t |-> "str", k |-> "fin", v |-> 0]
NoneV == [t |-> "NoneType", k |-> "fin", v |-> 0]

\* A type check that lets floats through, as isinstance(x, (int, float)) would.
IsIntOrFloat(x) == x.t \in {"int", "bool", "float"}

\* isinstance(x, int): bool is a subclass of int.
IsInt(x) == x.t \in {"int", "bool"}

\* isinstance(x, (int, float))
IsNumeric(x) == x.t \in {"int", "bool", "float"}

\* float(x) for an int, bool or float x: <<error, value>>.
ToFloat(x) ==
  IF x.t = "float" THEN <<"None", x>>
  ELSE IF x.k = "huge" THEN <<"OverflowError", NaN>>
  ELSE <<"None", FloatV(4 * x.v)>>

\* f < 0 for a float f: every comparison with nan is false.
FloatNegative(f) == f.k \in {"fin", "inf"} /\ f.v < 0

\* n < 0 for an int or bool n.
IntNegative(n) == n.v < 0

\* float * int: the int is converted to float first.
FloatTimesInt(f, n) ==
  IF n.k = "huge" THEN <<"OverflowError", NaN>>
  ELSE IF f.k = "nan" THEN <<"None", NaN>>
  ELSE IF f.k = "inf" THEN
    IF n.v = 0 THEN <<"None", NaN>>
    ELSE <<"None", InfV(IF n.v > 0 THEN f.v ELSE 0 - f.v)>>
  ELSE <<"None", FloatV(f.v * n.v)>>

\* a + b for the accumulator a of sum() (int 0 or a float) and a float b.
NumPlusFloat(a, b) ==
  IF a.k = "nan" \/ b.k = "nan" THEN NaN
  ELSE IF a.k = "inf" /\ b.k = "inf" THEN (IF a.v = b.v THEN a ELSE NaN)
  ELSE IF a.k = "inf" THEN a
  ELSE IF b.k = "inf" THEN b
  ELSE FloatV((IF a.t = "float" THEN a.v ELSE 4 * a.v) + b.v)

\* ------------------------------------------------------------ texts

IsSpace(c) == c \in {" ", "\t"}

LowerChar(c) ==
  CASE c = "P" -> "p"
    [] c = "E" -> "e"
    [] c = "N" -> "n"
    [] c = "I" -> "i"
    [] c = "K" -> "k"
    [] c = "C" -> "c"
    [] c = "U" -> "u"
    [] OTHER -> c

\* str.lower()
Lower(s) == [i \in 1..Len(s) |-> LowerChar(s[i])]

RECURSIVE LStrip(_)
LStrip(s) ==
  IF s # <<>> /\ IsSpace(Head(s)) THEN LStrip(Tail(s)) ELSE s

RECURSIVE RStrip(_)
RStrip(s) ==
  IF s # <<>> /\ IsSpace(s[Len(s)]) THEN RStrip(SubSeq(s, 1, Len(s) - 1)) ELSE s

\* str.strip()
Strip(s) == RStrip(LStrip(s))

\* A name argument: a str carrying its text, or a value that is no str.
Texto(s) == [t |-> "str", s |-> s]
NoTexto == [t |-> "NoneType", s |-> <<>>]

\* ------------------------------------------------------------ Producto

Falla(err, msg) == [err |-> err, msg |-> msg, obj |-> <<>>]

\* Line 33: nombre.strip() if isinstance(nombre, str) else "".
NombreLimpio(nombre) == IF nombre.t = "str" THEN Strip(nombre.s) ELSE <<>>

\* Producto(nombre, precio, cantidad): the error raised ("None" for none) and
\* the object constructed (<<>> when the constructor raises). The checks run
\* in the order of the source: name, price type, float(precio), price sign,
\* quantity type, quantity sign.
ProductoInit(nombre, precio, cantidad) ==
  LET nombre_limpio == NombreLimpio(nombre)
      conv == ToFloat(precio)
  IN  IF nombre_limpio = <<>>
        THEN Falla("ValueError", "El nombre no puede estar vacio.")
      ELSE IF ~IsNumeric(precio)
        THEN Falla("TypeError", "El precio debe ser numerico.")
      ELSE IF conv[1] # "None"
        THEN Falla(conv[1], "int too large to convert to float")
      ELSE IF FloatNegative(conv[2])
        THEN Falla("ValueError", "El precio no puede ser negativo.")
      ELSE IF ~IsInt(cantidad)
        THEN Falla("TypeError", "La cantidad debe ser un entero.")
      ELSE IF IntNegative(cantidad)
        THEN Falla("ValueError", "La cantidad no puede ser negativa.")
      ELSE [err |-> "None", msg |-> "",
            obj |-> <<[nombre |-> nombre_limpio, precio |-> conv[2],
                       cantidad |-> cantidad]>>]

\* actualizar_precio with the assignment made before the sign check.
actualizar_precio_sin_validar(self, nuevo_precio) ==
  LET conv == ToFloat(nuevo_precio)
  IN  IF ~IsNumeric(nuevo_precio)
        THEN [err |-> "TypeError", msg |-> "El precio debe ser numerico.", obj |-> self]
      ELSE IF conv[1] # "None"
        THEN [err |-> conv[1], msg |-> "int too large to convert to float", obj |-> self]
      ELSE IF FloatNegative(conv[2])
        THEN [err |-> "ValueError", msg |-> "El precio no puede ser negativo.",
              obj |-> [self EXCEPT !.precio = conv[2]]]
      ELSE [err |-> "None", msg |-> "", obj |-> [self EXCEPT !.precio = conv[2]]]

\* self.actualizar_precio(nuevo_precio): the error raised and self afterwards.
actualizar_precio(self, nuevo_precio) ==
  LET conv == ToFloat(nuevo_precio)
  IN  IF ~IsNumeric(nuevo_precio)
        THEN [err |-> "TypeError", msg |-> "El precio debe ser numerico.", obj |-> self]
      ELSE IF conv[1] # "None"
        THEN [err |-> conv[1], msg |-> "int too large to convert to float", obj |-> self]
      ELSE IF FloatNegative(conv[2])
        THEN [err |-> "ValueError", msg |-> "El precio no puede ser negativo.", obj |-> self]
      ELSE [err |-> "None", msg |-> "", obj |-> [self EXCEPT !.precio = conv[2]]]

\* self.actualizar_cantidad(nueva_cantidad): the error raised and self afterwards.
actualizar_cantidad(self, nueva_cantidad) ==
  IF ~IsInt(nueva_cantidad)
    THEN [err |-> "TypeError", msg |-> "La cantidad debe ser un entero.", obj |-> self]
  ELSE IF IntNegative(nueva_cantidad)
    THEN [err |-> "ValueError", msg |-> "La cantidad no puede ser negativa.", obj |-> self]
  ELSE [err |-> "None", msg |-> "", obj |-> [self EXCEPT !.cantidad = nueva_cantidad]]

\* self.calcular_valor_total(): <<error, value>> of self.precio * self.cantidad.
calcular_valor_total(self) == FloatTimesInt(self.precio, self.cantidad)

\* f"{x:.2f}" for a float x: the digits of the number rounded to hundredths
\* (a number of quarters is a whole number of hundredths), "nan" or "inf".
Format2f(x) ==
  IF x.k = "fin"
    THEN [k |-> "fin", neg |-> x.v < 0,
          ent |-> ((IF x.v < 0 THEN 0 - x.v ELSE x.v) * 25) \div 100,
          dec |-> ((IF x.v < 0 THEN 0 - x.v ELSE x.v) * 25) % 100]
    ELSE [k |-> x.k, neg |-> x.v < 0, ent |-> 0, dec |-> 0]

\* str(self): the three fields of the line "Producto: .. | Precio: $.. | Cantidad: ..".
ProductoStr(self) ==
  [nombre |-> self.nombre, precio |-> Format2f(self.precio), cantidad |-> self.cantidad]

\* ------------------------------------------------------------ Inventario

\* The duplicate check without .lower(): names compared as written.
NombreDuplicadoExacto(ps, p) ==
  \E i \in 1..Len(ps) : ps[i].nombre = p.nombre

\* Line 142: any(p.nombre.lower() == producto.nombre.lower() for p in self.productos)
NombreDuplicado(ps, p) ==
  \E i \in 1..Len(ps) : Lower(ps[i].nombre) = Lower(p.nombre)

\* agregar_producto with the append made before the duplicate check.
agregar_antes_de_validar(ps, arg) ==
  IF arg = <<>>
    THEN [err |-> "TypeError", msg |-> "Solo se pueden agregar objetos de tipo Producto.",
          productos |-> ps]
  ELSE IF NombreDuplicado(ps, arg[1])
    THEN [err |-> "ValueError", msg |-> "Ya existe un producto con ese nombre.",
          productos |-> Append(ps, arg[1])]
  ELSE [err |-> "None", msg |-> "", productos |-> Append(ps, arg[1])]

\* agregar_producto with insert(0, producto) in place of append(producto).
agregar_al_frente(ps, arg) ==
  IF arg = <<>>
    THEN [err |-> "TypeError", msg |-> "Solo se pueden agregar objetos de tipo Producto.",
          productos |-> ps]
  ELSE IF NombreDuplicado(ps, arg[1])
    THEN [err |-> "ValueError", msg |-> "Ya existe un producto con ese nombre.",
          productos |-> ps]
  ELSE [err |-> "None", msg |-> "", productos |-> <<arg[1]>> \o ps]

\* self.agregar_producto(arg). arg is <<p>> for a Producto p and <<>> for a
\* value that is no Producto. The error raised and self.productos afterwards.
agregar_producto(ps, arg) ==
  IF arg = <<>>
    THEN [err |-> "TypeError", msg |-> "Solo se pueden agregar objetos de tipo Producto.",
          productos |-> ps]
  ELSE IF NombreDuplicado(ps, arg[1])
    THEN [err |-> "ValueError", msg |-> "Ya existe un producto con ese nombre.",
          productos |-> ps]
  ELSE [err |-> "None", msg |-> "", productos |-> Append(ps, arg[1])]

\* The comparison of line 170 without .lower() on the query.
CoincideNombreSinLower(p, nombre_limpio) == Lower(p.nombre) = nombre_limpio

\* Line 170: producto.nombre.lower() == nombre_limpio.lower()
CoincideNombre(p, nombre_limpio) == Lower(p.nombre) = Lower(nombre_limpio)

\* Lines 169-173: the scan from position i on; <<i>> for the first product that
\* matches (the reference returned is the object at that position), <<>> for None.
RECURSIVE BuscarDesde(_, _, _)
BuscarDesde(ps, nombre_limpio, i) ==
  IF i > Len(ps) THEN <<>>
  ELSE IF CoincideNombre(ps[i], nombre_limpio) THEN <<i>>
  ELSE BuscarDesde(ps, nombre_limpio, i + 1)

\* self.buscar_producto(nombre) for a str nombre.
buscar_producto(ps, nombre) ==
  LET nombre_limpio == Strip(nombre)
  IN  IF nombre_limpio = <<>>
        THEN [err |-> "ValueError", msg |-> "El nombre a buscar no puede estar vacio.",
              ret |-> <<>>]
        ELSE [err |-> "None", msg |-> "", ret |-> BuscarDesde(ps, nombre_limpio, 1)]

\* sum(p.calcular_valor_total() for p in ps[i..]) continued from the
\* accumulator acc: <<error, value>>. The first product whose value raises
\* ends the sum with that error.
RECURSIVE SumDesde(_, _, _)
SumDesde(ps, i, acc) ==
  IF i > Len(ps) THEN <<"None", acc>>
  ELSE LET t == calcular_valor_total(ps[i])
       IN  IF t[1] # "None" THEN <<t[1], acc>>
           ELSE SumDesde(ps, i + 1, NumPlusFloat(acc, t[2]))

\* self.calcular_valor_inventario(): sum() starts from the int 0.
calcular_valor_inventario(ps) == SumDesde(ps, 1, IntV(0))

\* self.listar_productos(): what it prints (it returns None). Either the
\* message for an empty inventory, or the header and one numbered line for
\* each product, in the order of the list.
listar_productos(ps) ==
  IF ps = <<>>
    THEN [vacio |-> TRUE, lineas |-> <<>>]
    ELSE [vacio |-> FALSE,
          lineas |-> [i \in 1..Len(ps) |-> [i |-> i, producto |-> ProductoStr(ps[i])]]]

\* ------------------------------------------------------------ bounds and inputs

\* The largest inventory the model builds.
MaxProductos == 2

Pen == <<"P", "e", "n">>
pen == <<"p", "e", "n">>
PEN_ == <<" ", "P", "E", "N", " ">>
Ink == <<"I", "n", "k">>
ink_ == <<"i", "n", "k", " ">>
Cup == <<"C", "u", "p">>
Pe == <<"P", "e">>

\* Arguments of the constructor and of the two mutators in SpecProducto.
NombresArg == {Texto(<<>>), Texto(<<" ", "\t">>), Texto(PEN_), NoTexto}
PreciosArg ==
  {FloatV(6), FloatV(0 - 6), IntV(2), BoolV(1), NaN, InfV(1), HugeV(0 - 1), StrV}
CantidadesArg == {IntV(5), IntV(0 - 1), BoolV(1), HugeV(1), FloatV(0 - 6), StrV}

\* The products a caller can construct from the given argument triples.
Construibles(A) ==
  {ProductoInit(a[1], a[2], a[3]).obj[1] :
     a \in {x \in A : ProductoInit(x[1], x[2], x[3]).err = "None"}}

\* Arguments of the operations of Inventario in Spec: constructor arguments
\* of the products handed to agregar_producto (prices 1.50, 2.00, 2.50 and
\* 10.00), queries, and arguments of the mutators.
ArgsProducto ==
  {<<Texto(Pen), FloatV(6), IntV(100)>>,
   <<Texto(pen), FloatV(8), IntV(5)>>,
   <<Texto(PEN_), FloatV(10), IntV(4)>>,
   <<Texto(ink_), FloatV(10), IntV(4)>>,
   <<Texto(Ink), FloatV(6), HugeV(1)>>,
   <<Texto(Cup), FloatV(40), IntV(1)>>,
   <<Texto(Cup), FloatV(0 - 6), IntV(1)>>}
ProductosInv == Construibles(ArgsProducto)
ArgsAgregar == {<<p>> : p \in ProductosInv} \cup {<<>>}
Consultas == {<<>>, <<" ">>, PEN_, ink_, Pe, Cup}
PreciosInv == {FloatV(8), IntV(0 - 1), StrV}
CantidadesInv == {IntV(5), IntV(0 - 1), FloatV(6)}

\* Arguments of the operations of Inventario in SpecLecturas.
ArgsLecturas ==
  {<<p>> : p \in Construibles({<<Texto(Pen), FloatV(6), IntV(100)>>,
                               <<Texto(pen), FloatV(8), IntV(5)>>,
                               <<Texto(ink_), FloatV(10), IntV(4)>>,
                               <<Texto(Ink), FloatV(6), HugeV(1)>>})} \cup {<<>>}
PreciosLect == {FloatV(8), IntV(0 - 1)}
CantidadesLect == {IntV(5), IntV(0 - 1)}

\* ------------------------------------------------------------ state

Resultado(op, args, err, msg, ret) ==
  [op |-> op, args |-> args, err |-> err, msg |-> msg, ret |-> ret]

\* What SpecLecturas remembers of the reads made since the last call of
\* agregar_producto: the last result of each read and whether a mutator has
\* succeeded since that read.
MemoVacio == [total |-> <<>>, mutT |-> FALSE, lista |-> <<>>, mutL |-> FALSE]

\* Inventario() (lines 120-122), no Producto constructed yet, no call made.
Init ==
  /\ productos = <<>>
  /\ producto = <<>>
  /\ res = Resultado("init", <<>>, "None", "", <<>>)
  /\ memo = MemoVacio
  /\ pc = "api"

\* ------------------------------------------------------------ operations on one Producto

\* producto = Producto(nombre, precio, cantidad): a constructor that raises
\* leaves the caller's variable as it was.
Construir(nombre, precio, cantidad) ==
  LET r == ProductoInit(nombre, precio, cantidad)
  IN  /\ producto' = IF r.err = "None" THEN r.obj ELSE producto
      /\ res' = Resultado("Producto", <<nombre, precio, cantidad>>, r.err, r.msg, <<>>)
      /\ UNCHANGED <<productos, memo, pc>>

\* producto.actualizar_precio(nuevo_precio)
ActualizarPrecioDe(nuevo_precio) ==
  /\ producto # <<>>
  /\ LET r == actualizar_precio(producto[1], nuevo_precio)
     IN  /\ producto' = <<r.obj>>
         /\ res' = Resultado("actualizar_precio", <<nuevo_precio>>, r.err, r.msg, <<>>)
  /\ UNCHANGED <<productos, memo, pc>>

\* producto.actualizar_cantidad(nueva_cantidad)
ActualizarCantidadDe(nueva_cantidad) ==
  /\ producto # <<>>
  /\ LET r == actualizar_cantidad(producto[1], nueva_cantidad)
     IN  /\ producto' = <<r.obj>>
         /\ res' = Resultado("actualizar_cantidad", <<nueva_cantidad>>, r.err, r.msg, <<>>)
  /\ UNCHANGED <<productos, memo, pc>>

\* producto.calcular_valor_total()
CalcularValorTotal ==
  /\ producto # <<>>
  /\ LET t == calcular_valor_total(producto[1])
     IN  res' = Resultado("calcular_valor_total", <<>>, t[1], "",
                          IF t[1] = "None" THEN <<t[2]>> ELSE <<>>)
  /\ UNCHANGED <<productos, producto, memo, pc>>

\* str(producto)
Describir ==
  /\ producto # <<>>
  /\ res' = Resultado("__str__", <<>>, "None", "", <<ProductoStr(producto[1])>>)
  /\ UNCHANGED <<productos, producto, memo, pc>>

NextProducto ==
  \/ \E n \in NombresArg, p \in PreciosArg, c \in CantidadesArg : Construir(n, p, c)
  \/ \E p \in PreciosArg : ActualizarPrecioDe(p)
  \/ \E c \in CantidadesArg : ActualizarCantidadDe(c)
  \/ CalcularValorTotal
  \/ Describir

SpecProducto == Init /\ [][NextProducto]_vars

\* ------------------------------------------------------------ claims on Producto

\* Every Producto object there is: the caller's and those in the inventory.
Existentes ==
  {producto[i] : i \in 1..Len(producto)} \cup {productos[i] : i \in 1..Len(productos)}

\* f >= 0 for a float f: false for nan, as every comparison with nan is.
FloatGeZero(f) == f.k \in {"fin", "inf"} /\ f.v >= 0

\* n >= 0 for an int or bool n (the sign of a huge int is its v).
IntGeZero(n) == n.v >= 0

\* The argument is an int, a bool or a float.
ArgNumerico(x) == x.t \in {"int", "bool", "float"}

\* The argument is an int or a bool.
ArgEntero(x) == x.t \in {"int", "bool"}

\* A numeric argument below zero.
EsNegativo(x) == ArgNumerico(x) /\ x.k # "nan" /\ x.v < 0

\* An int argument below zero.
EsEnteroNegativo(x) == ArgEntero(x) /\ x.v < 0

\* A name argument that is a str and is not empty after trimming.
NombreValido(n) == n.t = "str" /\ Strip(n.s) # <<>>

\* A price the checks of lines 38-43 and 70-75 let through: a number that
\* float() converts and that is not below zero.
PrecioAceptado(x) == ArgNumerico(x) /\ x.k # "huge" /\ ~EsNegativo(x)

\* C2: every Producto that exists has price >= 0, quantity >= 0 and a name
\* that is not empty after trimming, whatever constructions and mutator calls
\* succeeded or failed before.
ProductoSiempreValido ==
  \A p \in Existentes :
    /\ FloatGeZero(p.precio)
    /\ IntGeZero(p.cantidad)
    /\ Strip(p.nombre) # <<>>

\* C7: a negative price or a negative quantity makes the constructor and the
\* corresponding mutator raise ValueError (InvalidArgument), and a mutator
\* that fails leaves the product as it was.
NegativoEsValueError ==
  [][/\ (res'.op = "Producto"
           /\ (EsNegativo(res'.args[2]) \/ EsEnteroNegativo(res'.args[3])))
        => res'.err = "ValueError"
     /\ (res'.op = "actualizar_precio" /\ EsNegativo(res'.args[1]))
        => (res'.err = "ValueError" /\ producto' = producto)
     /\ (res'.op = "actualizar_cantidad" /\ EsEnteroNegativo(res'.args[1]))
        => (res'.err = "ValueError" /\ producto' = producto)]_vars

AgregarProducto(arg) ==
  LET r == agregar_producto(productos, arg)
  IN  /\ Len(r.productos) <= MaxProductos
      /\ productos' = r.productos
      /\ res' = Resultado("agregar_producto", <<arg>>, r.err, r.msg, <<>>)
      /\ UNCHANGED <<producto, pc>>

\* inventario.buscar_producto(nombre)
BuscarProducto(nombre) ==
  LET r == buscar_producto(productos, nombre)
  IN  /\ res' = Resultado("buscar_producto", <<nombre>>, r.err, r.msg, r.ret)
      /\ UNCHANGED <<productos, producto, pc>>

\* inventario.calcular_valor_inventario()
CalcularValorInventario ==
  LET t == calcular_valor_inventario(productos)
  IN  /\ res' = Resultado("calcular_valor_inventario", <<>>, t[1], "",
                          IF t[1] = "None" THEN <<t[2]>> ELSE <<>>)
      /\ UNCHANGED <<productos, producto, pc>>

\* inventario.listar_productos()
ListarProductos ==
  /\ res' = Resultado("listar_productos", <<>>, "None", "", <<listar_productos(productos)>>)
  /\ UNCHANGED <<productos, producto, pc>>

\* inventario.productos[i].actualizar_precio(nuevo_precio), through the
\* reference buscar_producto returns or the list itself.
ActualizarPrecio(i, nuevo_precio) ==
  LET r == actualizar_precio(productos[i], nuevo_precio)
  IN  /\ productos' = [productos EXCEPT ![i] = r.obj]
      /\ res' = Resultado("actualizar_precio", <<nuevo_precio, IntV(i)>>, r.err, r.msg, <<>>)
      /\ UNCHANGED <<producto, pc>>

\* inventario.productos[i].actualizar_cantidad(nueva_cantidad)
ActualizarCantidad(i, nueva_cantidad) ==
  LET r == actualizar_cantidad(productos[i], nueva_cantidad)
  IN  /\ productos' = [productos EXCEPT ![i] = r.obj]
      /\ res' = Resultado("actualizar_cantidad", <<nueva_cantidad, IntV(i)>>, r.err, r.msg, <<>>)
      /\ UNCHANGED <<producto, pc>>

Next ==
  \/ \E arg \in ArgsAgregar : AgregarProducto(arg) /\ UNCHANGED memo
  \/ \E nombre \in Consultas : BuscarProducto(nombre) /\ UNCHANGED memo
  \/ CalcularValorInventario /\ UNCHANGED memo
  \/ ListarProductos /\ UNCHANGED memo
  \/ \E i \in 1..Len(productos), p \in PreciosInv : ActualizarPrecio(i, p) /\ UNCHANGED memo
  \/ \E i \in 1..Len(productos), c \in CantidadesInv :
       ActualizarCantidad(i, c) /\ UNCHANGED memo

Spec == Init /\ [][Next]_vars

\* ------------------------------------------------------------ claims on Inventario

MsgDuplicado == "Ya existe un producto con ese nombre."

\* The positions whose product has the name n, compared without case.
Posiciones(ps, n) == {i \in 1..Len(ps) : Lower(ps[i].nombre) = Lower(n)}

\* C1: no two products of the inventory have names equal without case.
SinNombresDuplicados ==
  \A i, j \in 1..Len(productos) :
    i # j => Lower(productos[i].nombre) # Lower(productos[j].nombre)

\* C1 witness: the inventory is full and the last call offered a product whose
\* name is written differently from every held name and equals one without case.
SinNombresDuplicadosVisto ==
  /\ Len(productos) = MaxProductos
  /\ res.op = "agregar_producto"
  /\ res.args[1] # <<>>
  /\ \A i \in 1..Len(productos) : productos[i].nombre # res.args[1][1].nombre
  /\ Posiciones(productos, res.args[1][1].nombre) # {}
  /\ res.err = "ValueError"

\* C3: agregar_producto of a product whose name equals, without case, the name
\* of a held product raises ValueError "Ya existe un producto con ese nombre."
\* (DuplicateKey) and leaves the list as it was.
DuplicadoRechazado ==
  [][(res'.op = "agregar_producto" /\ res'.args[1] # <<>>
        /\ Posiciones(productos, res'.args[1][1].nombre) # {})
     => (res'.err = "ValueError" /\ res'.msg = MsgDuplicado /\ productos' = productos)]_vars

\* C3 witness: with one product held, a product of the same name in another
\* case has been refused and the list still holds that one product.
DuplicadoRechazadoVisto ==
  /\ Len(productos) = 1
  /\ res.op = "agregar_producto"
  /\ res.args[1] # <<>>
  /\ res.args[1][1].nombre # productos[1].nombre
  /\ Lower(res.args[1][1].nombre) = Lower(productos[1].nombre)
  /\ res.err = "ValueError"
  /\ res.msg = MsgDuplicado

\* The list ps holds the same objects in the same places as qs: the same
\* length and names (an object never changes its name).
MismosObjetos(ps, qs) ==
  /\ Len(ps) = Len(qs)
  /\ \A i \in 1..Len(ps) : ps[i].nombre = qs[i].nombre

\* C4: the list grows only at its end and only by agregar_producto: a call
\* that succeeds makes it the old list followed by the product given; a
\* mutator changes at most the product it is called on, in place; no other
\* call changes anything. So every earlier list is a prefix of every later one.
SoloCreceAlFinal ==
  [][\/ /\ res'.op = "agregar_producto"
        /\ res'.err = "None"
        /\ productos' = Append(productos, res'.args[1][1])
     \/ /\ res'.op \in {"actualizar_precio", "actualizar_cantidad"}
        /\ MismosObjetos(productos', productos)
        /\ \A i \in 1..Len(productos) :
             i # res'.args[2].v => productos'[i] = productos[i]
     \/ productos' = productos]_vars

\* C4 witness: a second product has been appended behind the first.
SoloCreceAlFinalVisto ==
  /\ Len(productos) = 2
  /\ res.op = "agregar_producto"
  /\ res.err = "None"
  /\ productos[2] = res.args[1][1]
  /\ productos[1] # res.args[1][1]

\* C5: for a query that is not empty after trimming, buscar_producto raises
\* nothing, leaves the inventory as it was, and returns the product whose name
\* equals the trimmed query without case when there is one, wherever it
\* stands, and None when there is none.
BuscarEncuentra ==
  [][(res'.op = "buscar_producto" /\ Strip(res'.args[1]) # <<>>)
     => /\ res'.err = "None"
        /\ productos' = productos
        /\ IF Posiciones(productos, Strip(res'.args[1])) = {}
             THEN res'.ret = <<>>
             ELSE /\ Len(res'.ret) = 1
                  /\ res'.ret[1] \in Posiciones(productos, Strip(res'.args[1]))]_vars

\* C5 witness: a query with blanks around it and in another case has found
\* the product in second place.
BuscarEncuentraVisto ==
  /\ res.op = "buscar_producto"
  /\ res.err = "None"
  /\ res.ret = <<2>>
  /\ res.args[1] # Strip(res.args[1])
  /\ productos[2].nombre # Strip(res.args[1])

\* Every price and quantity of ps is a finite number.
TodoFinito(ps) ==
  \A i \in 1..Len(ps) : ps[i].precio.k = "fin" /\ ps[i].cantidad.k = "fin"

\* The sum of price times quantity over the products at the positions I, in quarters.
RECURSIVE Suma(_, _)
Suma(ps, I) ==
  IF I = {} THEN 0
  ELSE LET i == CHOOSE x \in I : TRUE
       IN  ps[i].precio.v * ps[i].cantidad.v + Suma(ps, I \ {i})

\* C6: calcular_valor_inventario returns the sum over the products of the
\* inventory of price times quantity, and 0 for the empty inventory; with
\* only ("Pen", 1.50, 100) in the inventory it returns 150.00.
ValorInventarioEsSuma ==
  res.op = "calcular_valor_inventario" =>
    /\ res.err = "None"
    /\ Len(res.ret) = 1
    /\ productos = <<>> => (res.ret[1].k = "fin" /\ res.ret[1].v = 0)
    /\ (productos # <<>> /\ TodoFinito(productos)) =>
         res.ret[1] = FloatV(Suma(productos, 1..Len(productos)))

\* ------------------------------------------------------------ repeated reads

\* The outcome of the last call: the error raised and the value returned or printed.
Desenlace(r) == [err |-> r.err, ret |-> r.ret]

\* memo after a mutator call: a call that succeeded marks the remembered reads.
MemoTrasMutador(m, err) ==
  IF err # "None" THEN m
  ELSE [m EXCEPT !.mutT = (m.total # <<>>), !.mutL = (m.lista # <<>>)]

NextLecturas ==
  \/ \E arg \in ArgsLecturas : AgregarProducto(arg) /\ memo' = MemoVacio
  \/ BuscarProducto(PEN_) /\ UNCHANGED memo
  \/ CalcularValorInventario
       /\ memo' = [memo EXCEPT !.total = <<Desenlace(res')>>, !.mutT = FALSE]
  \/ ListarProductos
       /\ memo' = [memo EXCEPT !.lista = <<Desenlace(res')>>, !.mutL = FALSE]
  \/ \E i \in 1..Len(productos), p \in PreciosLect :
       ActualizarPrecio(i, p) /\ memo' = MemoTrasMutador(memo, res'.err)
  \/ \E i \in 1..Len(productos), c \in CantidadesLect :
       ActualizarCantidad(i, c) /\ memo' = MemoTrasMutador(memo, res'.err)

SpecLecturas == Init /\ [][NextLecturas]_vars

ParseFloat(texto) ==
  CASE texto = "1.50" -> <<"None", FloatV(6)>>
    [] texto = "-1" -> <<"None", FloatV(0 - 4)>>
    [] OTHER -> <<"ValueError", NaN>>

\* int(texto) for the texts the menu model types as a quantity: <<error, value>>.
\* "1e400" stands for the digit 1 followed by 400 zeros, written out.
ParseInt(texto) ==
  CASE texto = "100" -> <<"None", IntV(100)>>
    [] texto = "-1" -> <<"None", IntV(0 - 1)>>
    [] texto = "1e400" -> <<"None", HugeV(1)>>
    [] OTHER -> <<"ValueError", IntV(0)>>

OpcionesTexto ==
  {<<"1">>, <<" ", "2", " ">>, <<"3">>, <<"4">>, <<"5", " ">>, <<"6">>, <<>>, <<"1", "2">>}
NombresTexto == {<<" ">>, PEN_, pen, Ink}
PreciosTexto == {"1.50", "-1", "abc"}
CantidadesTexto == {"100", "-1", "1.50", "1e400"}
ConsultasTexto == {<<" ">>, PEN_, Cup}

\* menu_principal(Inventario()) at its first prompt.
InitMenu ==
  /\ productos = <<>>
  /\ producto = <<>>
  /\ res = Resultado("init", <<>>, "None", "", <<>>)
  /\ memo = MemoVacio
  /\ pc = "menu"

\* Lines 217-219: an option that is none of "1".."5" after strip().
MenuInvalida(opc) ==
  /\ pc = "menu"
  /\ Strip(opc) \notin {<<"1">>, <<"2">>, <<"3">>, <<"4">>, <<"5">>}
  /\ res' = Resultado("menu", <<opc>>, "None", "Opcion invalida", <<>>)
  /\ UNCHANGED <<productos, producto, memo, pc>>

\* Lines 221-232, option 1: the error raised inside the try, if any, and the
\* list afterwards. float() is called before int(), the constructor after
\* both, agregar_producto last.
Opcion1(nombre, precio, cantidad) ==
  LET f == ParseFloat(precio)
      n == ParseInt(cantidad)
      c == ProductoInit(Texto(Strip(nombre)), f[2], n[2])
      a == agregar_producto(productos, c.obj)
  IN  IF f[1] # "None" THEN [err |-> f[1], productos |-> productos]
      ELSE IF n[1] # "None" THEN [err |-> n[1], productos |-> productos]
      ELSE IF c.err # "None" THEN [err |-> c.err, productos |-> productos]
      ELSE [err |-> a.err, productos |-> a.productos]

\* Option 1: except (ValueError, TypeError) catches and the loop goes on;
\* any other error leaves menu_principal. The local variable producto of
\* menu_principal is only printed and is not part of the state.
MenuAgregar(opc, nombre, precio, cantidad) ==
  /\ pc = "menu"
  /\ Strip(opc) = <<"1">>
  /\ LET r == Opcion1(nombre, precio, cantidad)
     IN  /\ Len(r.productos) <= MaxProductos
         /\ productos' = r.productos
         /\ res' = Resultado("menu", <<opc, nombre, precio, cantidad>>, r.err, "", <<>>)
         /\ pc' = IF r.err \in {"None", "ValueError", "TypeError"} THEN "menu" ELSE "fin"
  /\ UNCHANGED <<producto, memo>>

\* Lines 234-244, option 2: except ValueError catches.
MenuBuscar(opc, nombre) ==
  /\ pc = "menu"
  /\ Strip(opc) = <<"2">>
  /\ LET r == buscar_producto(productos, Strip(nombre))
     IN  /\ res' = Resultado("menu", <<opc, nombre>>, r.err, r.msg,
                             IF r.ret = <<>> THEN <<>> ELSE <<ProductoStr(productos[r.ret[1]])>>)
         /\ pc' = IF r.err \in {"None", "ValueError"} THEN "menu" ELSE "fin"
  /\ UNCHANGED <<productos, producto, memo>>

\* Lines 246-247, option 3.
MenuListar(opc) ==
  /\ pc = "menu"
  /\ Strip(opc) = <<"3">>
  /\ res' = Resultado("menu", <<opc>>, "None", "", <<listar_productos(productos)>>)
  /\ UNCHANGED <<productos, producto, memo, pc>>

\* Lines 249-251, option 4: no try around the call, so an error raised by
\* calcular_valor_inventario leaves menu_principal.
MenuValor(opc) ==
  /\ pc = "menu"
  /\ Strip(opc) = <<"4">>
  /\ LET t == calcular_valor_inventario(productos)
     IN  /\ res' = Resultado("menu", <<opc>>, t[1], "",
                             IF t[1] = "None" THEN <<Format2f(NumPlusFloat(t[2], FloatV(0)))>>
                             ELSE <<>>)
         /\ pc' = IF t[1] = "None" THEN "menu" ELSE "fin"
  /\ UNCHANGED <<productos, producto, memo>>

\* Lines 253-255, option 5: break.
MenuSalir(opc) ==
  /\ pc = "menu"
  /\ Strip(opc) = <<"5">>
  /\ res' = Resultado("menu", <<opc>>, "None", "Saliendo del sistema...", <<>>)
  /\ pc' = "fin"
  /\ UNCHANGED <<productos, producto, memo>>

NextMenu ==
  \E opc \in OpcionesTexto :
    \/ MenuInvalida(opc)
    \/ \E nombre \in NombresTexto, precio \in PreciosTexto, cantidad \in CantidadesTexto :
         MenuAgregar(opc, nombre, precio, cantidad)
    \/ \E nombre \in ConsultasTexto : MenuBuscar(opc, nombre)
    \/ MenuListar(opc)
    \/ MenuValor(opc)
    \/ MenuSalir(opc)

SpecMenu == InitMenu /\ [][NextMenu]_vars

\* C10: the loop of menu_principal ends when and only when option "5" is
\* entered: every other iteration, whatever it reports or catches, returns to
\* the prompt; and the inventory is changed only by an option 1 that succeeds,
\* which appends exactly one product.
MenuTerminaSoloConOpcion5 ==
  [][/\ (pc' = "fin") <=> (Strip(res'.args[1]) = <<"5">>)
     /\ productos' # productos
        => /\ Strip(res'.args[1]) = <<"1">>
           /\ res'.err = "None"
           /\ Len(productos') = Len(productos) + 1
           /\ SubSeq(productos', 1, Len(productos)) = productos]_vars

====
